---- MODULE Spec2Model ----
(***************************************************************************)
(* Model of the Virtual Service reconciliation of the api-gateway          *)
(* controller:                                                             *)
(*   internal/processing/istio/virtual_service_processor.go      (Create)  *)
(*   internal/processing/processors/virtual_service_processor.go           *)
(*                                               (EvaluateReconciliation)  *)
(***************************************************************************)
EXTENDS Integers, Sequences, FiniteSets, TLC

VARIABLES
    config,     \* the ReconciliationConfig captured by NewVirtualServiceProcessor
    crApi,      \* the APIRule handed to a direct call of Creator.Create
    crOut,      \* what that call returned
    cluster,    \* the VirtualService objects stored in the cluster
    pass,       \* per APIRule: the reconciliation pass in flight and what it returned
    selectorKey \* the ownership label key the owner lookup selects on

vars == <<config, crApi, crOut, cluster, pass, selectorKey>>

----------------------------------------------------------------------------
(* Bounds of the model *)

\* longest Rules list of an APIRule handed to Create
MaxRules == 2
\* most VirtualService objects the cluster stores
MaxObjects == 2
\* highest resourceVersion an object reaches
MaxVersion == 1

----------------------------------------------------------------------------
(* Data *)

NoService == [name |-> "", port |-> 0]

EmptyMutator == [malformed |-> FALSE, entries |-> {}]
CookieMutators ==
    { EmptyMutator,
      [malformed |-> FALSE, entries |-> {"user=test"}],
      [malformed |-> TRUE, entries |-> {}] }
HeaderMutators ==
    { EmptyMutator,
      [malformed |-> FALSE, entries |-> {"x-test=a"}],
      [malformed |-> TRUE, entries |-> {}] }

\* "/*" is the wildcard; "/a.*" holds regex metacharacters
Paths == {"/*", "/a.*"}
\* handler of the Rule's access strategy: open, proxy-mediated, JWT-validated
AccessStrategies == {"allow", "noop", "jwt"}

\* the cookie and header mutator definitions a Rule declares: each empty or not,
\* or one of the two malformed
MutatorPairs ==
    { m \in [cookie : CookieMutators, header : HeaderMutators] :
        (m.cookie.malformed \/ m.header.malformed) =>
            (m.cookie.entries = {} /\ m.header.entries = {} /\
             ~(m.cookie.malformed /\ m.header.malformed)) }

Rules ==
    { [ path |-> p, accessStrategy |-> a, service |-> s,
        cookieMutator |-> m.cookie, headerMutator |-> m.header ] :
        p \in Paths, a \in AccessStrategies,
        s \in {NoService, [name |-> "other", port |-> 8080]},
        m \in MutatorPairs }

\* the sequences over S of length at most n
SeqsUpTo(S, n) == UNION {[1..k -> S] : k \in 0..n}

OwnerLabel == "apirule.gateway.kyma-project.io/v1beta1"
OwnerLabelv1alpha1 == "apirule.gateway.kyma-project.io/v1alpha1"

\* label maps are sets of <<key, value>> pairs holding one pair per key
Label(labels, key, val) == {p \in labels : p[1] # key} \cup {<<key, val>>}

ExtraLabelSets ==
    { {},
      {<<"team", "gw">>},
      {<<OwnerLabel, "rule-b.prod">>},
      {<<OwnerLabel, "rule-b.prod">>, <<OwnerLabelv1alpha1, "rule-b.prod">>} }

Configs ==
    [ oathkeeperSvc : {"oathkeeper.kyma-system.svc.cluster.local"},
      oathkeeperSvcPort : {4455},
      corsConfig : {[allowOrigins |-> "*", allowMethods |-> "GET", allowHeaders |-> "*"]},
      defaultDomainName : {"kyma.local"},
      additionalLabels : ExtraLabelSets,
      httpTimeoutDuration : {180} ]

APIRuleOf(name, namespace, service, rules) ==
    [ name |-> name, namespace |-> namespace, host |-> "foo", gateway |-> "ns/gw",
      service |-> service, rules |-> rules ]

----------------------------------------------------------------------------
(* Helpers of the processing, helpers and builders packages *)

\* processing.IsSecured: the open ("allow") strategy is the only unsecured one
IsSecured(rule) == rule.accessStrategy # "allow"

\* processing.IsJwtSecured
IsJwtSecured(rule) == rule.accessStrategy = "jwt"

\* processing.FilterDuplicatePaths: a Rule is kept when no earlier Rule has its path
FilterDuplicatePaths(rules) ==
    LET keep == {i \in 1..Len(rules) : \A j \in 1..(i - 1) : rules[j].path # rules[i].path}
        RECURSIVE Pick(_)
        Pick(i) == IF i > Len(rules) THEN <<>>
                   ELSE IF i \in keep THEN <<rules[i]>> \o Pick(i + 1)
                   ELSE Pick(i + 1)
    IN  Pick(1)

\* helpers.GetHostWithDomain
GetHostWithDomain(host, domain) == host \o "." \o domain

\* helpers.GetHostLocalDomain
GetHostLocalDomain(name, namespace) == name \o "." \o namespace \o ".svc.cluster.local"

\* helpers.FindServiceNamespace
FindServiceNamespace(api, rule) == api.namespace

\* Rule.GetCookieMutator / Rule.GetHeaderMutator: the parsed mutator, or an error
GetCookieMutator(rule) ==
    IF rule.cookieMutator.malformed THEN [err |-> "ConfigError", entries |-> {}]
    ELSE [err |-> "", entries |-> rule.cookieMutator.entries]
GetHeaderMutator(rule) ==
    IF rule.headerMutator.malformed THEN [err |-> "ConfigError", entries |-> {}]
    ELSE [err |-> "", entries |-> rule.headerMutator.entries]
HasCookies(m) == m.entries # {}
HasHeaders(m) == m.entries # {}

\* processing.GetOwnerLabels: the selector of the objects an APIRule owns
OwnerValue(api) == api.name \o "." \o api.namespace
GetOwnerLabels(api) == {<<selectorKey, OwnerValue(api)>>}

\* builders.NewHttpRouteHeadersBuilder: the Host rewrite and nothing else
NoMutation == <<>>
HostHeaderOnly(host) ==
    [hostHeader |-> host, requestCookies |-> NoMutation, requestHeaders |-> NoMutation]

----------------------------------------------------------------------------
(* virtualServiceCreator.Create *)

\* line 45
FilteredRules_Unfiltered(api) == api.rules
FilteredRules(api) == FilterDuplicatePaths(api.rules)

RouteDirectlyToService_OpenOnly(rule) == ~IsSecured(rule)
\* lines 50-55: routeDirectlyToService
RouteDirectlyToService(rule) ==
    IF ~IsSecured(rule) THEN TRUE
    ELSE IF IsJwtSecured(rule) THEN TRUE
    ELSE FALSE

\* lines 57-73: host and port of the Route's destination; dereferencing the
\* absent APIRule-level service (line 67) panics
RouteDestination(cfg, api, rule) ==
    IF RouteDirectlyToService(rule)
    THEN IF rule.service # NoService
         THEN [panic |-> FALSE,
               host |-> GetHostLocalDomain(rule.service.name, FindServiceNamespace(api, rule)),
               port |-> rule.service.port]
         ELSE IF api.service # NoService
         THEN [panic |-> FALSE,
               host |-> GetHostLocalDomain(api.service.name, FindServiceNamespace(api, rule)),
               port |-> api.service.port]
         ELSE [panic |-> TRUE, host |-> "", port |-> 0]
    ELSE [panic |-> FALSE, host |-> cfg.oathkeeperSvc, port |-> cfg.oathkeeperSvcPort]

RouteMatch_NoWildcard(rule) == [kind |-> "regex", value |-> rule.path]
\* lines 77-81: the Route's match
RouteMatch(rule) ==
    IF rule.path = "/*" THEN [kind |-> "prefix", value |-> "/"]
    ELSE [kind |-> "regex", value |-> rule.path]

AttachesMutators_Secured(rule) == IsSecured(rule)
\* line 93: the Rules whose mutators are read
AttachesMutators(rule) == IsJwtSecured(rule)

\* lines 88-109: the Route's request header mutations, or the mutator's error
RouteHeaders(cfg, api, rule) ==
    LET base == HostHeaderOnly(GetHostWithDomain(api.host, cfg.defaultDomainName))
    IN  IF AttachesMutators(rule)
        THEN LET cookieMutator == GetCookieMutator(rule)
                 headerMutator == GetHeaderMutator(rule)
                 withCookies ==
                     IF HasCookies(cookieMutator)
                     THEN [base EXCEPT !.requestCookies = <<cookieMutator.entries>>]
                     ELSE base
                 withHeaders ==
                     IF HasHeaders(headerMutator)
                     THEN [withCookies EXCEPT !.requestHeaders = <<headerMutator.entries>>]
                     ELSE withCookies
             IN  IF cookieMutator.err # "" THEN [err |-> cookieMutator.err, headers |-> base]
                 ELSE IF headerMutator.err # "" THEN [err |-> headerMutator.err, headers |-> base]
                 ELSE [err |-> "", headers |-> withHeaders]
        ELSE [err |-> "", headers |-> base]

\* lines 48-113: one iteration of the loop over the filtered Rules
BuildRoute(cfg, api, rule) ==
    LET dest == RouteDestination(cfg, api, rule)
        hdrs == RouteHeaders(cfg, api, rule)
    IN  IF dest.panic THEN [kind |-> "panic", err |-> "nil pointer dereference"]
        ELSE IF hdrs.err # "" THEN [kind |-> "error", err |-> hdrs.err]
        ELSE [kind |-> "route", err |-> "",
              route |-> [ destination |-> [host |-> dest.host, port |-> dest.port],
                          match |-> RouteMatch(rule),
                          corsPolicy |-> cfg.corsConfig,
                          timeout |-> cfg.httpTimeoutDuration,
                          headers |-> hdrs.headers ]]

\* lines 117-125: the ownership labels, then the configured additional labels
CreateLabels(cfg, api) ==
    LET owned == Label(Label({}, OwnerLabel, OwnerValue(api)),
                       OwnerLabelv1alpha1, OwnerValue(api))
        RECURSIVE AddAll(_, _)
        AddAll(labels, extra) ==
            IF extra = {} THEN labels
            ELSE LET p == CHOOSE q \in extra : TRUE
                 IN  AddAll(Label(labels, p[1], p[2]), extra \ {p})
    IN  AddAll(owned, cfg.additionalLabels)

NoObject ==
    [ name |-> "", generateName |-> "", namespace |-> "", resourceVersion |-> 0,
      labels |-> {}, spec |-> [hosts |-> <<>>, gateways |-> <<>>, http |-> <<>>] ]

\* lines 39-130: the desired VirtualService, or the first failure of the loop
Create(cfg, api) ==
    LET filteredRules == FilteredRules(api)
        built == [i \in 1..Len(filteredRules) |-> BuildRoute(cfg, api, filteredRules[i])]
        failed == {i \in 1..Len(filteredRules) : built[i].kind # "route"}
    IN  IF failed # {}
        THEN LET first == CHOOSE i \in failed : \A j \in failed : i <= j
             IN  [kind |-> built[first].kind, err |-> built[first].err, vs |-> NoObject]
        ELSE [ kind |-> "ok", err |-> "",
               vs |-> [ name |-> "",
                        generateName |-> api.name \o "-",
                        namespace |-> api.namespace,
                        resourceVersion |-> 0,
                        labels |-> CreateLabels(cfg, api),
                        spec |-> [ hosts |-> <<GetHostWithDomain(api.host, cfg.defaultDomainName)>>,
                                   gateways |-> <<api.gateway>>,
                                   http |-> [i \in 1..Len(filteredRules) |-> built[i].route] ] ] ]

----------------------------------------------------------------------------
(* Direct calls of Creator.Create *)

NotCalled == [kind |-> "none", err |-> "", vs |-> NoObject]
Idle ==
    [ state |-> "idle", outcome |-> "", err |-> "", calls |-> <<>>,
      created |-> NotCalled, listed |-> <<>>, changes |-> <<>> ]

IDs == {"a", "b"}
Identity(id) == IF id = "a" THEN [name |-> "rule-a", namespace |-> "prod"]
                ELSE [name |-> "rule-b", namespace |-> "prod"]

DefaultService == [name |-> "svc", port |-> 80]
DefaultConfig == CHOOSE c \in Configs : c.additionalLabels = {}

InitCreate ==
    \* every Rules list of a bounded length under the default configuration, and
    \* every configuration and every APIRule without an APIRule-level service on
    \* the lists of at most one Rule
    /\ \/ /\ config = DefaultConfig
          /\ \E k \in 0..MaxRules : \E rules \in [1..k -> Rules] :
                crApi = APIRuleOf("rule-a", "prod", DefaultService, rules)
       \/ /\ config \in Configs
          /\ \E svc \in {NoService, DefaultService} : \E k \in 0..1 : \E rules \in [1..k -> Rules] :
                crApi = APIRuleOf("rule-a", "prod", svc, rules)
    /\ crOut = NotCalled
    /\ cluster = {}
    /\ pass = [id \in IDs |-> Idle]
    /\ selectorKey = OwnerLabelv1alpha1

CallCreate ==
    /\ crOut = NotCalled
    /\ crOut' = Create(config, crApi)
    /\ UNCHANGED <<config, crApi, cluster, pass, selectorKey>>

NextCreate == CallCreate

SpecCreate == InitCreate /\ [][NextCreate]_vars

----------------------------------------------------------------------------
(* The cluster and its client *)

\* ctrlclient.MatchingLabels: the object carries every label of the selector
MatchingLabels(obj, selector) == selector \subseteq obj.labels

\* the stored objects an APIRule's owner lookup selects
Owned(objects, api) == {o \in objects : MatchingLabels(o, GetOwnerLabels(api))}

\* the orders in which a List may return a set of objects
Orderings(S) ==
    {q \in [1..Cardinality(S) -> S] : \A i, j \in 1..Cardinality(S) : i # j => q[i] # q[j]}

\* the outcomes of client.List: a failed or cancelled read, or the items
ListErrors == {"ClusterReadError", "context canceled"}

\* the Rules lists the reconciled APIRules carry
OpenRule ==
    [ path |-> "/*", accessStrategy |-> "allow", service |-> NoService,
      cookieMutator |-> EmptyMutator, headerMutator |-> EmptyMutator ]
JwtRule ==
    [ path |-> "/a.*", accessStrategy |-> "jwt", service |-> [name |-> "other", port |-> 8080],
      cookieMutator |-> [malformed |-> FALSE, entries |-> {"user=test"}],
      headerMutator |-> EmptyMutator ]
MalformedRule == [JwtRule EXCEPT !.cookieMutator = [malformed |-> TRUE, entries |-> {}]]
RuleLists == {<<OpenRule>>, <<OpenRule, JwtRule>>, <<MalformedRule>>}

\* the APIRule of an identity as the control loop hands it to a pass
APIRuleFor(id, rules) ==
    APIRuleOf(Identity(id).name, Identity(id).namespace, DefaultService, rules)

----------------------------------------------------------------------------
(* VirtualServiceProcessor *)

\* lines 38-40
getDesiredState(api) == Create(config, api)

\* lines 50-54: the first item of the list, or none
getActualState(items) == IF Len(items) >= 1 THEN <<items[1]>> ELSE <<>>

getObjectChanges_ReplacesObject(desiredVs, actualVs) ==
    IF actualVs # <<>>
    THEN [action |-> "update", obj |-> desiredVs]
    ELSE [action |-> "create", obj |-> desiredVs]
\* lines 57-64
getObjectChanges(desiredVs, actualVs) ==
    IF actualVs # <<>>
    THEN [action |-> "update", obj |-> [actualVs[1] EXCEPT !.spec = desiredVs.spec]]
    ELSE [action |-> "create", obj |-> desiredVs]

ClientCalls_LookupFirst(desired) == <<"List">>
\* lines 23-28: the requests EvaluateReconciliation sends to the cluster client
ClientCalls(desired) == IF desired.kind = "ok" THEN <<"List">> ELSE <<>>

StoredAfterEvaluate_Writes(objects, change) ==
    IF change.action = "create" THEN objects \cup {change.obj}
    ELSE {IF o.name = change.obj.name THEN change.obj ELSE o : o \in objects}
\* lines 22-36: the cluster's stored objects after EvaluateReconciliation has run;
\* the processor sends no write
StoredAfterEvaluate(objects, change) == objects

\* lines 22-36
EvaluateReconciliation(id, apiRule) ==
    /\ pass[id].state = "idle"
    /\ LET desired == getDesiredState(apiRule)
       IN  IF desired.kind # "ok"
           THEN /\ pass' = [pass EXCEPT ![id] =
                         [ state |-> "returned",
                           outcome |-> desired.kind, err |-> desired.err,
                           calls |-> ClientCalls(desired),
                           created |-> desired, listed |-> <<>>, changes |-> <<>> ]]
                /\ cluster' = cluster
           ELSE \/ \E e \in ListErrors :
                     /\ pass' = [pass EXCEPT ![id] =
                              [ state |-> "returned", outcome |-> "error", err |-> e,
                                calls |-> ClientCalls(desired),
                                created |-> desired, listed |-> <<>>, changes |-> <<>> ]]
                     /\ cluster' = cluster
                \/ \E items \in Orderings(Owned(cluster, apiRule)) :
                     LET change == getObjectChanges(desired.vs, getActualState(items))
                     IN  /\ pass' = [pass EXCEPT ![id] =
                                  [ state |-> "returned", outcome |-> "ok", err |-> "",
                                    calls |-> ClientCalls(desired),
                                    created |-> desired, listed |-> items,
                                    changes |-> <<change>> ]]
                         /\ cluster' = StoredAfterEvaluate(cluster, change)
    /\ UNCHANGED <<config, crApi, crOut, selectorKey>>

----------------------------------------------------------------------------
(* The caller: the control loop around the processor *)

Names(objects) == {o.name : o \in objects}

\* the name the API server generates from generateName
GeneratedName(prefix, objects) ==
    LET free == {i \in 1..MaxObjects : (prefix \o ToString(i)) \notin Names(objects)}
    IN  prefix \o ToString(CHOOSE i \in free : \A j \in free : i <= j)

\* the caller writes the Create change of a successful pass
ApplyCreate(id) ==
    /\ pass[id].state = "returned" /\ pass[id].outcome = "ok"
    /\ pass[id].changes[1].action = "create"
    /\ Cardinality(cluster) < MaxObjects
    /\ LET obj == pass[id].changes[1].obj
       IN  cluster' = cluster \cup
             { [obj EXCEPT !.name = GeneratedName(obj.generateName, cluster),
                           !.resourceVersion = 0] }
    /\ pass' = [pass EXCEPT ![id] = Idle]
    /\ UNCHANGED <<config, crApi, crOut, selectorKey>>

\* the caller writes the Update change of a successful pass: the stored object of
\* that name is replaced when its version token is the one the change carries
ApplyUpdate(id) ==
    /\ pass[id].state = "returned" /\ pass[id].outcome = "ok"
    /\ pass[id].changes[1].action = "update"
    /\ LET obj == pass[id].changes[1].obj
           stored == {o \in cluster : o.name = obj.name /\ o.namespace = obj.namespace
                                      /\ o.resourceVersion = obj.resourceVersion}
       IN  /\ obj.resourceVersion < MaxVersion
           /\ cluster' = (cluster \ stored) \cup
                 {[obj EXCEPT !.resourceVersion = obj.resourceVersion + 1] : o \in stored}
    /\ pass' = [pass EXCEPT ![id] = Idle]
    /\ UNCHANGED <<config, crApi, crOut, selectorKey>>

\* a pass that returned an error (or panicked) leaves nothing to write; the
\* level-triggered loop invokes the processor again later
Requeue(id) ==
    /\ pass[id].state = "returned" /\ pass[id].outcome # "ok"
    /\ pass' = [pass EXCEPT ![id] = Idle]
    /\ UNCHANGED <<config, crApi, crOut, cluster, selectorKey>>

\* the configurations of the reconciled system
ReconConfigs ==
    {c \in Configs : c.additionalLabels \in
        {{}, {<<OwnerLabel, "rule-b.prod">>, <<OwnerLabelv1alpha1, "rule-b.prod">>}}}

\* an object an earlier pass for the APIRule created
Existing(id, n) ==
    LET made == Create(config, APIRuleFor(id, <<OpenRule>>)).vs
    IN  [made EXCEPT !.name = made.generateName \o ToString(n)]

InitCommon ==
    /\ config \in ReconConfigs
    /\ selectorKey \in {OwnerLabel, OwnerLabelv1alpha1}
    /\ crApi = APIRuleOf("rule-a", "prod", DefaultService, <<>>)
    /\ crOut = NotCalled
    /\ pass = [id \in IDs |-> Idle]

Init ==
    /\ InitCommon
    /\ cluster \in SUBSET {Existing("a", 1), Existing("a", 2), Existing("b", 1)}
    /\ Cardinality(cluster) <= MaxObjects

\* no routing object exists yet
InitFresh ==
    /\ InitCommon
    /\ cluster = {}

Next ==
    \E id \in IDs :
        \/ \E rules \in RuleLists : EvaluateReconciliation(id, APIRuleFor(id, rules))
        \/ ApplyCreate(id)
        \/ ApplyUpdate(id)
        \/ Requeue(id)

Spec == Init /\ [][Next]_vars

SpecFresh == InitFresh /\ [][Next]_vars

----------------------------------------------------------------------------
(* Properties of Create, checked under SpecCreate *)

\* the Rules of the APIRule handed to Create that survive duplicate-path filtering
Surviving == FilterDuplicatePaths(crApi.rules)
Routes == crOut.vs.spec.http
Backend(rule) == IF rule.service # NoService THEN rule.service ELSE crApi.service

\* C3: every Route of a successful Create has the backend service (the Rule's own
\* when declared, else the APIRule's) as destination when its Rule is open or
\* JWT-validated, and the configured oathkeeper host and port otherwise.
C3_RoutingTarget ==
    crOut.kind = "ok" =>
        \A i \in 1..Len(Surviving) :
            /\ i \in DOMAIN Routes
            /\ LET rule == Surviving[i]
                   dest == Routes[i].destination
               IN  IF ~IsSecured(rule) \/ IsJwtSecured(rule)
                   THEN /\ dest.host = Backend(rule).name \o "." \o crApi.namespace
                                           \o ".svc.cluster.local"
                        /\ dest.port = Backend(rule).port
                   ELSE /\ dest.host = config.oathkeeperSvc
                        /\ dest.port = config.oathkeeperSvcPort

\* C3 witness: one Create routed a proxy-mediated Rule to oathkeeper and a
\* JWT-validated Rule to the Rule's own service.
C3_Witness ==
    /\ crOut.kind = "ok"
    /\ Len(Routes) = 2
    /\ \E i, j \in 1..2 :
          /\ Surviving[i].accessStrategy = "noop"
          /\ Routes[i].destination.host = config.oathkeeperSvc
          /\ Surviving[j].accessStrategy = "jwt"
          /\ Surviving[j].service # NoService
          /\ Routes[j].destination.port = Surviving[j].service.port

\* C4: a Route of a Rule that is not JWT-validated carries the Host rewrite and no
\* cookie or header mutation; a Route of a JWT-validated Rule carries cookie
\* mutations exactly when its cookie mutator is non-empty and header mutations
\* exactly when its header mutator is non-empty.
C4_HeaderMutators ==
    crOut.kind = "ok" =>
        \A i \in 1..Len(Surviving) :
            /\ i \in DOMAIN Routes
            /\ LET rule == Surviving[i]
                   hdrs == Routes[i].headers
               IN  /\ hdrs.hostHeader = crApi.host \o "." \o config.defaultDomainName
                   /\ IF IsJwtSecured(rule)
                      THEN /\ (hdrs.requestCookies # NoMutation) <=>
                                  (rule.cookieMutator.entries # {})
                           /\ (hdrs.requestHeaders # NoMutation) <=>
                                  (rule.headerMutator.entries # {})
                      ELSE /\ hdrs.requestCookies = NoMutation
                           /\ hdrs.requestHeaders = NoMutation

\* C4 witness: one Create built a Route without mutations for a proxy-mediated
\* Rule that declares both mutators, and a Route with the cookie mutation alone
\* for a JWT-validated Rule that declares only cookies.
C4_Witness ==
    /\ crOut.kind = "ok"
    /\ Len(Routes) = 2
    /\ \E i, j \in 1..2 :
          /\ Surviving[i].accessStrategy = "noop"
          /\ Surviving[i].cookieMutator.entries # {}
          /\ Surviving[i].headerMutator.entries # {}
          /\ Routes[i].headers.requestCookies = NoMutation
          /\ Surviving[j].accessStrategy = "jwt"
          /\ Surviving[j].cookieMutator.entries # {}
          /\ Surviving[j].headerMutator.entries = {}
          /\ Routes[j].headers.requestCookies # NoMutation
          /\ Routes[j].headers.requestHeaders = NoMutation

\* the match the path of a Rule compiles to
MatchOf(path) ==
    IF path = "/*" THEN [kind |-> "prefix", value |-> "/"]
    ELSE [kind |-> "regex", value |-> path]

\* C5: a successful Create yields as many Routes as Rules survive duplicate-path
\* filtering, one per distinct path, and the i-th Route is built from the i-th
\* surviving Rule.
C5_RouteCount ==
    crOut.kind = "ok" =>
        /\ Len(Routes) = Len(Surviving)
        /\ Len(Routes) = Cardinality({crApi.rules[k].path : k \in 1..Len(crApi.rules)})
        /\ \A i \in 1..Len(Surviving) :
              /\ Routes[i].match = MatchOf(Surviving[i].path)
              /\ Surviving[i].accessStrategy = "noop" <=>
                     Routes[i].destination.host = config.oathkeeperSvc

\* C5 witness: Create succeeded on two Rules of one path and built one Route.
C5_Witness ==
    /\ crOut.kind = "ok"
    /\ Len(crApi.rules) = 2
    /\ crApi.rules[1].path = crApi.rules[2].path
    /\ crApi.rules[1] # crApi.rules[2]
    /\ Len(Routes) = 1

\* C6: a Route matches by the URI prefix "/" when its Rule's path is "/*" and by
\* a regex that is the Rule's path, unchanged, otherwise; never by both.
C6_PathMatch ==
    crOut.kind = "ok" =>
        \A i \in 1..Len(Surviving) :
            /\ i \in DOMAIN Routes
            /\ Routes[i].match.kind \in {"prefix", "regex"}
            /\ IF Surviving[i].path = "/*"
               THEN Routes[i].match = [kind |-> "prefix", value |-> "/"]
               ELSE Routes[i].match = [kind |-> "regex", value |-> Surviving[i].path]

\* C6 witness: one Create built a prefix match for "/*" and a regex match for a
\* path that holds regex metacharacters.
C6_Witness ==
    /\ crOut.kind = "ok"
    /\ Len(Routes) = 2
    /\ Routes[1].match = [kind |-> "prefix", value |-> "/"]
    /\ Routes[2].match = [kind |-> "regex", value |-> "/a.*"]

\* C7: the object Create returns has the APIRule's namespace, an empty name, both
\* ownership label keys set to "<apiRuleName>.<apiRuleNamespace>", and every
\* configured additional label, whatever the configuration.
C7_Metadata ==
    crOut.kind = "ok" =>
        /\ crOut.vs.namespace = crApi.namespace
        /\ crOut.vs.name = ""
        /\ <<OwnerLabel, crApi.name \o "." \o crApi.namespace>> \in crOut.vs.labels
        /\ <<OwnerLabelv1alpha1, crApi.name \o "." \o crApi.namespace>> \in crOut.vs.labels
        /\ config.additionalLabels \subseteq crOut.vs.labels

----------------------------------------------------------------------------
(* Properties of EvaluateReconciliation, checked under Spec and SpecFresh *)

Returned(id) == pass[id].state = "returned"
Succeeded(id) == Returned(id) /\ pass[id].outcome = "ok"
OwnValue(id) == Identity(id).name \o "." \o Identity(id).namespace

\* C1: a successful pass whose lookup returned objects returns one Update that
\* keeps name, namespace, version token and labels of the first returned object
\* and carries the desired Spec, whether or not the Spec differs; a successful
\* pass whose lookup returned nothing returns one Create of the whole desired
\* object, whose name is empty.
C1_Diff ==
    \A id \in IDs :
        Succeeded(id) =>
            LET desired == pass[id].created.vs
                items == pass[id].listed
            IN  /\ Len(pass[id].changes) = 1
                /\ LET change == pass[id].changes[1]
                   IN  IF Len(items) >= 1
                       THEN /\ change.action = "update"
                            /\ change.obj.name = items[1].name
                            /\ change.obj.namespace = items[1].namespace
                            /\ change.obj.resourceVersion = items[1].resourceVersion
                            /\ change.obj.labels = items[1].labels
                            /\ change.obj.spec = desired.spec
                       ELSE /\ change.action = "create"
                            /\ change.obj = desired
                            /\ change.obj.name = ""

\* C1 witness: a lookup returned two objects, the first already carrying the
\* desired Spec, and the pass returned an Update of that first object.
C1_Witness ==
    \E id \in IDs :
        /\ Succeeded(id)
        /\ Len(pass[id].listed) = 2
        /\ pass[id].listed[1].spec = pass[id].created.vs.spec
        /\ pass[id].changes[1].action = "update"
        /\ pass[id].changes[1].obj.name = pass[id].listed[1].name
        /\ pass[id].changes[1].obj.name # pass[id].listed[2].name

\* C2: a pass returns one change and no error, or an error and no change; a
\* failed Create returns no object and the pass then makes no lookup.
C2_Errors ==
    \A id \in IDs :
        Returned(id) =>
            /\ pass[id].outcome = "ok" =>
                  (pass[id].err = "" /\ Len(pass[id].changes) = 1)
            /\ pass[id].outcome # "ok" =>
                  (pass[id].err # "" /\ pass[id].changes = <<>>)
            /\ pass[id].created.kind = "error" =>
                  /\ pass[id].outcome = "error"
                  /\ pass[id].err = pass[id].created.err
                  /\ pass[id].created.vs = NoObject
                  /\ pass[id].calls = <<>>
            /\ pass[id].created.kind = "ok" => pass[id].calls = <<"List">>

\* C2 witness: one pass returned the error of a malformed mutator without a
\* lookup, and another returned the error of a cancelled lookup; neither
\* returned a change.
C2_Witness ==
    /\ Returned("a") /\ pass["a"].err = "ConfigError"
    /\ pass["a"].calls = <<>> /\ pass["a"].changes = <<>>
    /\ Returned("b") /\ pass["b"].err = "context canceled"
    /\ pass["b"].calls = <<"List">> /\ pass["b"].changes = <<>>

\* C8: a pass lists only objects carrying its own APIRule's ownership label, and
\* the change it returns is an Update of such an object or a Create labelled with
\* both of its own ownership labels; it is never a change to an object another
\* APIRule owns.
C8_Isolation ==
    \A id \in IDs :
        Succeeded(id) =>
            LET change == pass[id].changes[1]
            IN  /\ \A k \in 1..Len(pass[id].listed) :
                      <<selectorKey, OwnValue(id)>> \in pass[id].listed[k].labels
                /\ change.action = "update" =>
                      <<selectorKey, OwnValue(id)>> \in change.obj.labels
                /\ change.action = "create" =>
                      /\ <<OwnerLabel, OwnValue(id)>> \in change.obj.labels
                      /\ <<OwnerLabelv1alpha1, OwnValue(id)>> \in change.obj.labels
                /\ \A other \in IDs \ {id} :
                      <<selectorKey, OwnValue(other)>> \notin change.obj.labels

\* the same under a configuration whose additional labels leave the ownership
\* keys alone
OwnershipKeysFree ==
    \A p \in config.additionalLabels : p[1] \notin {OwnerLabel, OwnerLabelv1alpha1}
Isolation_OwnershipKeysFree == OwnershipKeysFree => C8_Isolation

\* the objects a Create change of the APIRule was written as
CreatedFor(objects, id) == {o \in objects : o.generateName = Identity(id).name \o "-"}
OwnedBy(objects, id) == {o \in objects : <<selectorKey, OwnValue(id)>> \in o.labels}

\* what C9 says of one step
SequentialStep(id) ==
    \* the APIRule never owns more than one object
    /\ Cardinality(OwnedBy(cluster', id)) <= 1
    \* a pass that returns: Create when no change of the APIRule was written
    \* yet, Update of the object written before otherwise; never a delete
    /\ (pass[id].state = "idle" /\ pass'[id].state = "returned" /\ pass'[id].outcome = "ok") =>
          LET change == pass'[id].changes[1]
          IN  /\ change.action \in {"create", "update"}
              /\ CreatedFor(cluster, id) = {} => change.action = "create"
              /\ CreatedFor(cluster, id) # {} =>
                    /\ change.action = "update"
                    /\ change.obj.name \in Names(CreatedFor(cluster, id))
    \* a change that is applied: the owned object then carries the desired Spec
    /\ (Succeeded(id) /\ pass'[id].state = "idle") =>
          \E o \in OwnedBy(cluster', id) : o.spec = pass[id].created.vs.spec
    \* no object is deleted
    /\ Names(cluster) \subseteq Names(cluster')

\* C9: from a cluster without objects, with every returned change applied before
\* the next pass of the APIRule: the first successful pass returns Create, every
\* later one Update of that object, none a delete; the APIRule never owns more
\* than one object, and after a change is applied the owned object carries the
\* Spec that pass desired.
C9_Sequential == [][\A id \in IDs : SequentialStep(id)]_vars

\* the same under a configuration whose additional labels leave the ownership
\* keys alone
Sequential_OwnershipKeysFree ==
    [][OwnershipKeysFree => \A id \in IDs : SequentialStep(id)]_vars

\* C10: EvaluateReconciliation, returning a change or an error, leaves the stored
\* objects as they are, and sends the cluster client at most one request, a List.
C10_NoWrites ==
    [][\A id \in IDs :
          (pass[id].state = "idle" /\ pass'[id].state = "returned") =>
              /\ cluster' = cluster
              /\ pass'[id].calls \in {<<>>, <<"List">>}]_vars

\* C10 witness: a pass has returned a Create after one List, and the cluster
\* holds no object of its APIRule.
C10_Witness ==
    \E id \in IDs :
        /\ Succeeded(id)
        /\ pass[id].changes[1].action = "create"
        /\ pass[id].calls = <<"List">>
        /\ OwnedBy(cluster, id) = {}
        /\ CreatedFor(cluster, id) = {}

====
